---- MODULE Spec2Model ----
(***************************************************************************)
(* Model of couchdb/design.py: synchronisation of view and update-handler  *)
(* definitions with the design documents of a database.                    *)
(*                                                                         *)
(* Text is modelled as a sequence of chunks: the design name               *)
(* '_design/_design/a' is <<"_design/", "_design/", "a">>.  A Python dict  *)
(* is a function whose DOMAIN is the set of keys present.  Source code is  *)
(* a sequence of lines, a line being <<indentation, text>>.                *)
(***************************************************************************)
EXTENDS Integers, Sequences, FiniteSets, TLC

VARIABLES store, call

vars == <<store, call>>

(***************************************************************************)
(* Bounds of the model.                                                    *)
(***************************************************************************)
MaxDefs == 3
MaxRounds == 2

Callers == {1, 2}

(***************************************************************************)
(* Python dict and Optional helpers.                                       *)
(***************************************************************************)
EmptyDict == [k \in {} |-> k]

Has(d, k) == k \in DOMAIN d

Get(d, k, default) == IF k \in DOMAIN d THEN d[k] ELSE default

Put(d, k, v) == [x \in (DOMAIN d) \cup {k} |-> IF x = k THEN v ELSE d[x]]

None == [none |-> TRUE]

Some(x) == [val |-> x]

IsNone(o) == "none" \in DOMAIN o

(***************************************************************************)
(* Text: design names and their order under Python's string comparison.    *)
(* '_' (0x5f) sorts before every lower-case letter, so the chunk           *)
(* "_design/" sorts before the base names "a" and "b".                     *)
(***************************************************************************)
Prefix == "_design/"

ChunkOrder == <<Prefix, "a", "b">>

Rank(ch) == CHOOSE i \in 1..Len(ChunkOrder) : ChunkOrder[i] = ch

RECURSIVE StrLess(_, _)
StrLess(s, t) ==
    IF t = <<>> THEN FALSE
    ELSE IF s = <<>> THEN TRUE
    ELSE IF Head(s) = Head(t) THEN StrLess(Tail(s), Tail(t))
    ELSE Rank(Head(s)) < Rank(Head(t))

\* design.startswith('_design/') and design[8:]
StartsWithPrefix(design) == design # <<>> /\ Head(design) = Prefix

StripPrefix(design) == IF StartsWithPrefix(design) THEN Tail(design) ELSE design

\* '_design/%s' % design
DocId(design) == <<Prefix>> \o design

(***************************************************************************)
(* Source text: dedent(code.lstrip('\n')).                                 *)
(***************************************************************************)
IsBlank(line) == line[2] = ""

RECURSIVE LStripNewlines(_)
LStripNewlines(code) ==
    IF code # <<>> /\ code[1] = <<0, "">> THEN LStripNewlines(Tail(code))
    ELSE code

Margin(code) ==
    LET ind == {code[i][1] : i \in {j \in 1..Len(code) : ~IsBlank(code[j])}}
    IN  IF ind = {} THEN 0 ELSE CHOOSE m \in ind : \A n \in ind : m <= n

\* The empty string is the text without lines: a text of one empty line is
\* the same string.
Text(lines) == IF lines = << <<0, "">> >> THEN <<>> ELSE lines

Dedent(code) ==
    Text([i \in 1..Len(code) |->
             IF IsBlank(code[i]) THEN <<0, "">>
             ELSE <<code[i][1] - Margin(code), code[i][2]>>])

Normalize(code) == Dedent(LStripNewlines(code))

(***************************************************************************)
(* Definition objects.                                                     *)
(***************************************************************************)
DefinitionMixin(design) ==
    [kind |-> "DefinitionMixin", design |-> StripPrefix(design)]

ViewDefinition(design, name, map_fun, reduce_fun, language, options) ==
    [kind |-> "ViewDefinition",
     design |-> StripPrefix(design),
     name |-> name,
     map_fun |-> Normalize(map_fun),
     reduce_fun |-> IF ~IsNone(reduce_fun) /\ reduce_fun.val # <<>>
                    THEN Some(Normalize(reduce_fun.val)) ELSE reduce_fun,
     language |-> language,
     options |-> options]

UpdateHandlerDefinition(design, name, func, language) ==
    [kind |-> "UpdateHandlerDefinition",
     design |-> StripPrefix(design),
     name |-> name,
     func |-> Normalize(func),
     language |-> language]

(***************************************************************************)
(* Merge of the definitions of one kind into a document field.             *)
(***************************************************************************)
Truthy(o) ==
    /\ ~IsNone(o)
    /\ DOMAIN o.val # {}

\* Faulty variant of get_definition: 'reduce' and 'options' are stored
\* whenever they are not None, also when empty.
get_definition_not_none(view) ==
    LET r0 == Put(EmptyDict, "map", view.map_fun)
        r1 == IF ~IsNone(view.reduce_fun)
              THEN Put(r0, "reduce", view.reduce_fun.val) ELSE r0
    IN  IF ~IsNone(view.options) THEN Put(r1, "options", view.options.val) ELSE r1

\* ViewDefinition._sync_doc.get_definition
get_definition(view) ==
    LET r0 == Put(EmptyDict, "map", view.map_fun)
        r1 == IF Truthy(view.reduce_fun)
              THEN Put(r0, "reduce", view.reduce_fun.val) ELSE r0
    IN  IF Truthy(view.options) THEN Put(r1, "options", view.options.val) ELSE r1

\* attrgetter('func')
func_getter(definition) == definition.func

definition_getter(getter, definition) ==
    IF getter = "get_definition" THEN get_definition(definition)
    ELSE func_getter(definition)

\* One iteration of the loop of _sync_dict_field, from the state p.
sync_dict_step(p, field, definition, value) ==
    [doc |-> Put(p.doc, field,
                 Put(Get(p.doc, field, EmptyDict), definition.name, value)),
     languages |-> p.languages \cup {definition.language},
     missing |-> p.missing \ {definition.name}]

\* The loop of _sync_dict_field over the first n definitions:
\* the document, the language set and the names still missing.
RECURSIVE sync_dict_loop(_, _, _, _, _, _)
sync_dict_loop(doc, field, definitions, getter, languages, n) ==
    IF n = 0
    THEN [doc |-> doc, languages |-> languages,
          missing |-> DOMAIN Get(doc, field, EmptyDict)]
    ELSE sync_dict_step(
             sync_dict_loop(doc, field, definitions, getter, languages, n - 1),
             field, definitions[n], definition_getter(getter, definitions[n]))

\* Faulty variant of sync_dict_missing: the field is created eagerly, also
\* when no definition was stored under it.
sync_dict_missing_setdefault(p, field, remove_missing) ==
    IF remove_missing /\ p.missing # {}
    THEN [doc |-> Put(p.doc, field,
                      [k \in (DOMAIN p.doc[field]) \ p.missing |->
                          p.doc[field][k]]),
          languages |-> p.languages]
    ELSE IF p.missing # {} /\ Has(p.doc, "language")
    THEN [doc |-> p.doc, languages |-> p.languages \cup {p.doc["language"]}]
    ELSE [doc |-> Put(p.doc, field, Get(p.doc, field, EmptyDict)),
          languages |-> p.languages]

\* Faulty variant of sync_dict_missing: the stored language never joins the
\* language set.
sync_dict_missing_supplied_only(p, field, remove_missing) ==
    IF remove_missing /\ p.missing # {}
    THEN [doc |-> Put(p.doc, field,
                      [k \in (DOMAIN p.doc[field]) \ p.missing |->
                          p.doc[field][k]]),
          languages |-> p.languages]
    ELSE [doc |-> p.doc, languages |-> p.languages]

\* Faulty variant of sync_dict_missing: remove_missing is ignored.
sync_dict_missing_keep(p, field, remove_missing) ==
    IF p.missing # {} /\ Has(p.doc, "language")
    THEN [doc |-> p.doc, languages |-> p.languages \cup {p.doc["language"]}]
    ELSE [doc |-> p.doc, languages |-> p.languages]

\* The end of _sync_dict_field: the names still missing are deleted, or the
\* document's language joins the language set.
sync_dict_missing(p, field, remove_missing) ==
    IF remove_missing /\ p.missing # {}
    THEN [doc |-> Put(p.doc, field,
                      [k \in (DOMAIN p.doc[field]) \ p.missing |->
                          p.doc[field][k]]),
          languages |-> p.languages]
    ELSE IF p.missing # {} /\ Has(p.doc, "language")
    THEN [doc |-> p.doc, languages |-> p.languages \cup {p.doc["language"]}]
    ELSE [doc |-> p.doc, languages |-> p.languages]

\* Faulty variant of _sync_dict_field: a kind without definitions is skipped.
_sync_dict_field_if_supplied(doc, field, definitions, getter, remove_missing, languages) ==
    IF definitions = <<>>
    THEN [doc |-> doc, languages |-> languages]
    ELSE sync_dict_missing(
             sync_dict_loop(doc, field, definitions, getter, languages,
                            Len(definitions)),
             field, remove_missing)

_sync_dict_field(doc, field, definitions, getter, remove_missing, languages) ==
    sync_dict_missing(
        sync_dict_loop(doc, field, definitions, getter, languages,
                       Len(definitions)),
        field, remove_missing)

\* Faulty variant of ViewDefinition._sync_doc: the wrong field key.
ViewDefinition_sync_doc_updates(doc, views, remove_missing, languages) ==
    _sync_dict_field(doc, "updates", views, "get_definition",
                     remove_missing, languages)

ViewDefinition_sync_doc(doc, views, remove_missing, languages) ==
    _sync_dict_field(doc, "views", views, "get_definition",
                     remove_missing, languages)

\* Faulty variant of UpdateHandlerDefinition._sync_doc: the attribute name is
\* used as the field key.
UpdateHandlerDefinition_sync_doc_attr_key(doc, update_handlers, remove_missing, languages) ==
    _sync_dict_field(doc, "update_handlers", update_handlers, "func",
                     remove_missing, languages)

UpdateHandlerDefinition_sync_doc(doc, update_handlers, remove_missing, languages) ==
    _sync_dict_field(doc, "updates", update_handlers, "func",
                     remove_missing, languages)

(***************************************************************************)
(* _DesignDocument.                                                        *)
(***************************************************************************)
definition_types ==
    << [cls |-> "ViewDefinition", name |-> "views"],
       [cls |-> "UpdateHandlerDefinition", name |-> "update_handlers"] >>

KindSyncDoc(cls, doc, definitions, remove_missing, languages) ==
    IF cls = "ViewDefinition"
    THEN ViewDefinition_sync_doc(doc, definitions, remove_missing, languages)
    ELSE UpdateHandlerDefinition_sync_doc(doc, definitions, remove_missing,
                                          languages)

\* _DesignDocument.__init__
DesignDocument(design, views, update_handlers) ==
    [design |-> StripPrefix(design),
     views |-> views,
     update_handlers |-> update_handlers]

IsInstance(definition, cls) == definition.kind = cls

IsUnknown(definition) ==
    \A t \in 1..Len(definition_types) :
        ~IsInstance(definition, definition_types[t].cls)

OfType(definitions, cls) == SelectSeq(definitions, LAMBDA d : IsInstance(d, cls))

\* Faulty variant of from_definitions: definitions of unknown type are dropped.
from_definitions_lenient(design, definitions) ==
    [error |-> "",
     design_doc |->
         DesignDocument(design,
                        OfType(definitions, definition_types[1].cls),
                        OfType(definitions, definition_types[2].cls))]

from_definitions(design, definitions) ==
    IF \E i \in 1..Len(definitions) : IsUnknown(definitions[i])
    THEN [error |-> "TypeError"]
    ELSE [error |-> "",
          design_doc |->
              DesignDocument(design,
                             OfType(definitions, definition_types[1].cls),
                             OfType(definitions, definition_types[2].cls))]

sync_doc_step(p, r) ==
    [doc |-> r.doc, languages |-> r.languages, steps |-> Append(p.steps, r.doc)]

sync_doc_kind(self, p, t, remove_missing) ==
    sync_doc_step(p, KindSyncDoc(t.cls, p.doc, self[t.name], remove_missing,
                                 p.languages))

\* The loop of _DesignDocument._sync_doc over the first n definition types.
RECURSIVE sync_doc_loop(_, _, _, _)
sync_doc_loop(self, doc, remove_missing, n) ==
    IF n = 0
    THEN [doc |-> doc, languages |-> {}, steps |-> <<>>]
    ELSE sync_doc_kind(self, sync_doc_loop(self, doc, remove_missing, n - 1),
                       definition_types[n], remove_missing)

\* Faulty variant of sync_doc_language: a stored language is kept
\* (setdefault instead of assignment).
sync_doc_language_setdefault(p) ==
    [error |-> IF Cardinality(p.languages) > 1 THEN "ValueError"
               ELSE IF p.languages = {} THEN "IndexError" ELSE "",
     doc |-> IF Cardinality(p.languages) = 1 /\ ~Has(p.doc, "language")
             THEN Put(p.doc, "language", CHOOSE l \in p.languages : TRUE)
             ELSE p.doc,
     steps |-> p.steps,
     languages |-> p.languages]

\* Faulty variant of sync_doc_language: the language check is left out.
sync_doc_language_unchecked(p) ==
    [error |-> IF p.languages = {} THEN "IndexError" ELSE "",
     doc |-> IF p.languages # {}
             THEN Put(p.doc, "language", CHOOSE l \in p.languages : TRUE)
             ELSE p.doc,
     steps |-> p.steps,
     languages |-> p.languages]

\* The end of _DesignDocument._sync_doc: the language check and assignment.
sync_doc_language(p) ==
    [error |-> IF Cardinality(p.languages) > 1 THEN "ValueError"
               ELSE IF p.languages = {} THEN "IndexError" ELSE "",
     doc |-> IF Cardinality(p.languages) = 1
             THEN Put(p.doc, "language", CHOOSE l \in p.languages : TRUE)
             ELSE p.doc,
     steps |-> p.steps,
     languages |-> p.languages]

DesignDocument_sync_doc(self, doc, remove_missing) ==
    sync_doc_language(sync_doc_loop(self, doc, remove_missing,
                                    Len(definition_types)))

(***************************************************************************)
(* The database: get with a default, and the bulk update, which answers    *)
(* one outcome per document, in order, and rejects a document whose        *)
(* revision is not the stored one.                                         *)
(***************************************************************************)
db_get(st, id, default) == IF id \in DOMAIN st THEN st[id] ELSE default

Accepts(st, doc) ==
    IF doc["_id"] \in DOMAIN st
    THEN Has(doc, "_rev") /\ doc["_rev"] = st[doc["_id"]]["_rev"]
    ELSE ~Has(doc, "_rev")

NextRev(st, id) == IF id \in DOMAIN st THEN st[id]["_rev"] + 1 ELSE 1

Outcome(st, doc) ==
    IF Accepts(st, doc)
    THEN [success |-> TRUE, id |-> doc["_id"], rev |-> NextRev(st, doc["_id"])]
    ELSE [success |-> FALSE, id |-> doc["_id"], error |-> "conflict"]

Write(st, doc) ==
    IF Accepts(st, doc)
    THEN Put(st, doc["_id"], Put(doc, "_rev", NextRev(st, doc["_id"])))
    ELSE st

db_update_step(p, doc) ==
    [store |-> Write(p.store, doc),
     results |-> Append(p.results, Outcome(p.store, doc))]

\* The bulk update of the first n documents: the store and the outcomes.
RECURSIVE db_update_loop(_, _, _)
db_update_loop(st, docs, n) ==
    IF n = 0 THEN [store |-> st, results |-> <<>>]
    ELSE db_update_step(db_update_loop(st, docs, n - 1), docs[n])

db_update(st, docs) == db_update_loop(st, docs, Len(docs))

(***************************************************************************)
(* sorted(definitions, key=attrgetter('design')) and groupby.              *)
(***************************************************************************)
\* Faulty variant of InsertSorted: the sort is not stable, a definition is
\* placed before the definitions of the same design seen earlier.
RECURSIVE InsertSorted_unstable(_, _)
InsertSorted_unstable(sorted, d) ==
    IF sorted = <<>> THEN <<d>>
    ELSE IF ~StrLess(Head(sorted).design, d.design)
    THEN <<d>> \o sorted
    ELSE <<Head(sorted)>> \o InsertSorted_unstable(Tail(sorted), d)

RECURSIVE InsertSorted(_, _)
InsertSorted(sorted, d) ==
    IF sorted = <<>> THEN <<d>>
    ELSE IF StrLess(d.design, Head(sorted).design)
    THEN <<d>> \o sorted
    ELSE <<Head(sorted)>> \o InsertSorted(Tail(sorted), d)

\* Faulty variant of SortedByDesign: the definitions are not sorted.
Unsorted(definitions) == definitions

RECURSIVE SortedByDesign(_)
SortedByDesign(definitions) ==
    IF definitions = <<>> THEN <<>>
    ELSE InsertSorted(SortedByDesign(SubSeq(definitions, 1, Len(definitions) - 1)),
                      definitions[Len(definitions)])

\* Length of the run of definitions at the head that share its key.
RECURSIVE RunLength(_)
RunLength(definitions) ==
    IF Len(definitions) <= 1 THEN Len(definitions)
    ELSE IF definitions[2].design = definitions[1].design
    THEN 1 + RunLength(Tail(definitions))
    ELSE 1

(***************************************************************************)
(* Inputs: the definitions a caller may pass and the documents the         *)
(* database may hold before the first call.                                *)
(***************************************************************************)
Src(text) == << <<0, text>> >>

Indented(text) == << <<0, "">>, <<4, text>> >>

DefPool ==
    { ViewDefinition(<<"a">>, "n1", Src("m1"), None, "javascript", None),
      ViewDefinition(<<Prefix, "a">>, "n1", Indented("m2"), Some(Src("r1")),
                     "javascript", Some("collation" :> "raw")),
      ViewDefinition(<<"a">>, "n2", Src("m1"), Some(<<>>), "python",
                     Some(EmptyDict)),
      ViewDefinition(<<Prefix, Prefix, "a">>, "n2", Src("m1"), None,
                     "javascript", None),
      ViewDefinition(<<"b">>, "n1", Src("m1"), None, "javascript", None),
      UpdateHandlerDefinition(<<"a">>, "n1", Src("f1"), "javascript"),
      UpdateHandlerDefinition(<<"b">>, "n1", Indented("f1"), "python"),
      DefinitionMixin(<<"a">>),
      DefinitionMixin(<<Prefix, "b">>) }

DefLists == UNION { [1..n -> DefPool] : n \in 0..MaxDefs }

IdA == DocId(<<"a">>)

IdB == DocId(<<"b">>)

StoredA ==
    { ("_id" :> IdA) @@ ("_rev" :> 1) @@ ("language" :> "javascript")
        @@ ("views" :> ("n2" :> ("map" :> Src("m1"))))
        @@ ("updates" :> ("n2" :> Src("f2"))),
      ("_id" :> IdA) @@ ("_rev" :> 2) @@ ("language" :> "python")
        @@ ("views" :> (("n1" :> ("map" :> Src("m1")))
                        @@ ("n2" :> ("map" :> Src("m2")))))
        @@ ("validate_doc_update" :> Src("v1")) }

StoredB ==
    { ("_id" :> IdB) @@ ("_rev" :> 1) @@ ("updates" :> ("n2" :> Src("f1"))) }

InitialStores ==
    { sa @@ sb : sa \in {EmptyDict} \cup {(IdA :> d) : d \in StoredA},
                 sb \in {EmptyDict} \cup {(IdB :> d) : d \in StoredB} }

(***************************************************************************)
(* State of a caller of sync_definitions.                                  *)
(***************************************************************************)
IdleCall ==
    [pc |-> "idle", round |-> 0, definitions |-> <<>>,
     remove_missing |-> FALSE, callback |-> FALSE,
     pending |-> <<>>, docs |-> <<>>, merges |-> <<>>, events |-> <<>>,
     results |-> <<>>, error |-> "", before |-> EmptyDict]

\* sync_definitions up to the first iteration of sync_many: the definitions
\* are sorted, the generator of design documents has produced nothing yet.
sync_definitions(definitions, remove_missing, callback) ==
    [pc |-> "loop", definitions |-> definitions,
     remove_missing |-> remove_missing, callback |-> callback,
     pending |-> SortedByDesign(definitions), docs |-> <<>>,
     merges |-> <<>>, events |-> <<>>, results |-> <<>>, error |-> ""]

\* Faulty variant of Changed: every document counts as changed.
AlwaysChanged(doc, orig_doc) == TRUE

Changed(doc, orig_doc) == doc # orig_doc

Enter(c, definitions, remove_missing, callback) ==
    call' = [call EXCEPT ![c] =
                sync_definitions(definitions, remove_missing, callback)
                @@ [round |-> call[c].round + 1, before |-> store]]

Init ==
    /\ store \in InitialStores
    /\ call = [c \in Callers |-> IdleCall]

\* A caller invokes sync_definitions(db, definitions, remove_missing, callback).
Call(c) ==
    /\ call[c].pc = "idle"
    /\ \E definitions \in DefLists, remove_missing \in BOOLEAN,
          callback \in BOOLEAN :
          Enter(c, definitions, remove_missing, callback)
    /\ UNCHANGED store

\* The caller invokes sync_definitions again with the same arguments.
Repeat(c) ==
    /\ call[c].pc = "done"
    /\ call[c].round < MaxRounds
    /\ Enter(c, call[c].definitions, call[c].remove_missing, call[c].callback)
    /\ UNCHANGED store

\* The generator of design documents raised: the call ends.
Raise(cs, rest, error) ==
    [cs EXCEPT !.pc = "raised", !.error = error, !.pending = rest]

\* Faulty variant of Merged: the callback is invoked for unchanged documents too.
Merged_notify_all(cs, rest, key, design_doc, orig_doc, r) ==
    [cs EXCEPT
        !.pc = IF r.error # "" THEN "raised" ELSE "loop",
        !.error = r.error,
        !.pending = rest,
        !.merges = Append(@, [key |-> key, design_doc |-> design_doc,
                              orig_doc |-> orig_doc, steps |-> r.steps,
                              doc |-> r.doc, languages |-> r.languages,
                              error |-> r.error]),
        !.events =
            IF r.error = "" /\ cs.callback
            THEN @ \o <<[op |-> "get", id |-> orig_doc["_id"]],
                        [op |-> "callback", doc |-> r.doc]>>
            ELSE Append(@, [op |-> "get", id |-> orig_doc["_id"]]),
        !.docs = IF r.error = "" /\ Changed(r.doc, orig_doc)
                 THEN Append(@, r.doc) ELSE @]

\* The body of the loop of sync_many after the merge r of design_doc into
\* the fetched document orig_doc; key is the groupby key of the group.
Merged(cs, rest, key, design_doc, orig_doc, r) ==
    [cs EXCEPT
        !.pc = IF r.error # "" THEN "raised" ELSE "loop",
        !.error = r.error,
        !.pending = rest,
        !.merges = Append(@, [key |-> key, design_doc |-> design_doc,
                              orig_doc |-> orig_doc, steps |-> r.steps,
                              doc |-> r.doc, languages |-> r.languages,
                              error |-> r.error]),
        !.events =
            IF r.error = "" /\ Changed(r.doc, orig_doc) /\ cs.callback
            THEN @ \o <<[op |-> "get", id |-> orig_doc["_id"]],
                        [op |-> "callback", doc |-> r.doc]>>
            ELSE Append(@, [op |-> "get", id |-> orig_doc["_id"]]),
        !.docs = IF r.error = "" /\ Changed(r.doc, orig_doc)
                 THEN Append(@, r.doc) ELSE @]

Fetched(cs, rest, key, design_doc, orig_doc) ==
    Merged(cs, rest, key, design_doc, orig_doc,
           DesignDocument_sync_doc(design_doc, orig_doc, cs.remove_missing))

\* Faulty variant of sync_many_step: the design documents are a list built
\* before the loop, so every group is classified before the first fetch.
sync_many_step_eager(st, cs, rest, key, made) ==
    IF made.error # "" \/ \E i \in 1..Len(rest) : IsUnknown(rest[i])
    THEN Raise(cs, rest, "TypeError")
    ELSE Fetched(cs, rest, key, made.design_doc,
                 db_get(st, DocId(made.design_doc.design),
                        "_id" :> DocId(made.design_doc.design)))

sync_many_step(st, cs, rest, key, made) ==
    IF made.error # ""
    THEN Raise(cs, rest, made.error)
    ELSE Fetched(cs, rest, key, made.design_doc,
                 db_get(st, DocId(made.design_doc.design),
                        "_id" :> DocId(made.design_doc.design)))

GroupAt(pending, n) == SubSeq(pending, 1, n)

RestAt(pending, n) == SubSeq(pending, n + 1, Len(pending))

\* One iteration of the loop of sync_many: the generator classifies the next
\* group (from_definitions), then the document is fetched, merged, compared,
\* reported to the callback and collected.
NextGroup(c) ==
    /\ call[c].pc = "loop"
    /\ call[c].pending # <<>>
    /\ UNCHANGED store
    /\ call' = [call EXCEPT ![c] =
           sync_many_step(store, call[c],
               RestAt(call[c].pending, RunLength(call[c].pending)),
               call[c].pending[1].design,
               from_definitions(call[c].pending[1].design,
                   GroupAt(call[c].pending, RunLength(call[c].pending))))]

\* Faulty variant of Committed: a rejected document is raised as an error.
Committed_raise_on_conflict(cs, r) ==
    IF \E i \in 1..Len(r.results) : ~r.results[i].success
    THEN [cs EXCEPT !.pc = "raised", !.error = "ResourceConflict",
                    !.events = Append(@, [op |-> "update", docs |-> cs.docs])]
    ELSE [cs EXCEPT !.pc = "done", !.results = r.results,
                    !.events = Append(@, [op |-> "update", docs |-> cs.docs])]

\* return db.update(docs)
Committed(cs, r) ==
    [cs EXCEPT !.pc = "done", !.results = r.results,
               !.events = Append(@, [op |-> "update", docs |-> cs.docs])]

\* The documents collected by all running calls, in the order of the callers.
RECURSIVE AllDocs(_)
AllDocs(n) == IF n = 0 THEN <<>> ELSE AllDocs(n - 1) \o call[n].docs

\* Faulty variant of Commit: the list of documents is shared by the calls.
Commit_shared_docs(c) ==
    /\ call[c].pc = "loop"
    /\ call[c].pending = <<>>
    /\ store' = db_update(store, AllDocs(Cardinality(Callers))).store
    /\ call' = [call EXCEPT ![c] =
                   Committed(call[c],
                             db_update(store, AllDocs(Cardinality(Callers))))]

Commit(c) ==
    /\ call[c].pc = "loop"
    /\ call[c].pending = <<>>
    /\ store' = db_update(store, call[c].docs).store
    /\ call' = [call EXCEPT ![c] =
                   Committed(call[c], db_update(store, call[c].docs))]

SeqCallers == {1}

Next == \E c \in SeqCallers : Call(c) \/ Repeat(c) \/ NextGroup(c) \/ Commit(c)

Spec == Init /\ [][Next]_vars

\* The highest revision another writer produces.
MaxRev == 3

\* The version another writer stores under id: the stored document (or a new
\* one) marked as written by it.
OtherVersion(st, id) == Put(db_get(st, id, "_id" :> id), "writer", TRUE)

\* Another writer of the same database updates (or creates) the document id
\* while a call is running, before, between or after its fetches (what it
\* wrote before the call began is part of the initial store).
OtherWriter(id) ==
    /\ \E c \in SeqCallers : call[c].pc = "loop"
    /\ Get(db_get(store, id, "_id" :> id), "_rev", 0) < MaxRev
    /\ store' = db_update(store, <<OtherVersion(store, id)>>).store
    /\ UNCHANGED call

\* The longest list of definitions of a call that runs beside other activity.
MaxConcDefs == 2

ConcLists == UNION { [1..n -> DefPool] : n \in 0..MaxConcDefs }

\* A caller invokes sync_definitions while others use the database.
CallBeside(c) ==
    /\ call[c].pc = "idle"
    /\ \E definitions \in ConcLists, remove_missing \in BOOLEAN,
          callback \in BOOLEAN :
          Enter(c, definitions, remove_missing, callback)
    /\ UNCHANGED store

NextWriter ==
    \/ \E c \in SeqCallers : CallBeside(c) \/ NextGroup(c) \/ Commit(c)
    \/ \E id \in {IdA, IdB} : OtherWriter(id)

\* sync_definitions called once while another writer updates the database.
SpecWriter == Init /\ [][NextWriter]_vars

\* A validator definition as the tests construct it,
\* ValidateFunctionDefinition(design, func): a definition (DefinitionMixin)
\* of a kind of its own that carries one function.
ValidateFunctionDefinition(design, func, language) ==
    [kind |-> "ValidateFunctionDefinition", func |-> Normalize(func),
     language |-> language] @@ DefinitionMixin(design)

ValidatorPool ==
    { ValidateFunctionDefinition(<<"a">>, Src("v1"), "javascript"),
      ValidateFunctionDefinition(<<Prefix, "a">>, Src("v2"), "javascript"),
      ValidateFunctionDefinition(<<"b">>, Src("v1"), "javascript"),
      ViewDefinition(<<"a">>, "n1", Src("m1"), None, "javascript", None),
      UpdateHandlerDefinition(<<"b">>, "n1", Src("f1"), "javascript") }

ValidatorLists == UNION { [1..n -> ValidatorPool] : n \in 0..MaxDefs }

\* A caller invokes sync_definitions with validator definitions in the list.
CallValidator(c) ==
    /\ call[c].pc = "idle"
    /\ \E definitions \in ValidatorLists, remove_missing \in BOOLEAN,
          callback \in BOOLEAN :
          Enter(c, definitions, remove_missing, callback)
    /\ UNCHANGED store

NextValidator ==
    \E c \in SeqCallers : CallValidator(c) \/ NextGroup(c) \/ Commit(c)

\* sync_definitions called once with validator definitions.
SpecValidator == Init /\ [][NextValidator]_vars

\* The document a definition is synchronised into.
DocOf(definition) == DocId(StripPrefix(definition.design))

\* The documents of the callers: caller 1 works on IdA, caller 2 on IdB.
DocOfCaller(c) == IF c = 1 THEN IdA ELSE IdB

DisjointLists(c) ==
    UNION { [1..n -> {d \in DefPool : DocOf(d) = DocOfCaller(c)}] :
               n \in 0..MaxConcDefs }

\* A caller invokes sync_definitions with definitions for its own document
\* and a callback; 'before' keeps the store as it was before either call.
CallDisjoint(c) ==
    /\ call[c].pc = "idle"
    /\ \E definitions \in DisjointLists(c), remove_missing \in BOOLEAN,
          callback \in {TRUE} :
          call' = [call EXCEPT ![c] =
                      sync_definitions(definitions, remove_missing, callback)
                      @@ [round |-> 1, before |-> call[c].before]]
    /\ UNCHANGED store

InitConc ==
    /\ store \in InitialStores
    /\ call = [c \in Callers |-> [IdleCall EXCEPT !.before = store]]

NextConc == \E c \in Callers : CallDisjoint(c) \/ NextGroup(c) \/ Commit(c)

\* Two callers run sync_definitions concurrently, each on its own document.
SpecConc == InitConc /\ [][NextConc]_vars

\* sync_many run to its end without interruption, from the call state cs
\* against the store st: the final store and the final state of the call.
RECURSIVE sync_many(_, _)
sync_many(st, cs) ==
    IF cs.pc # "loop"
    THEN [store |-> st, call |-> cs]
    ELSE IF cs.pending = <<>>
    THEN [store |-> db_update(st, cs.docs).store,
          call |-> Committed(cs, db_update(st, cs.docs))]
    ELSE sync_many(st,
             sync_many_step(st, cs,
                 RestAt(cs.pending, RunLength(cs.pending)),
                 cs.pending[1].design,
                 from_definitions(cs.pending[1].design,
                     GroupAt(cs.pending, RunLength(cs.pending)))))

TypeOK ==
    /\ \A c \in Callers : call[c].pc \in {"idle", "loop", "raised", "done"}
    /\ \A id \in DOMAIN store : store[id]["_id"] = id

(***************************************************************************)
(* Observations of the call of caller 1, used by the properties below.     *)
(***************************************************************************)
TheCall == call[1]

Finished == TheCall.pc \in {"done", "raised"}

EventsOf(op) == SelectSeq(TheCall.events, LAMBDA e : e.op = op)

UpdateCalls == Len(EventsOf("update"))

HasLanguage(definition) == "language" \in DOMAIN definition

\* Two definitions for the same design document declare different languages.
DeclaresConflict(definitions) ==
    \E i, j \in 1..Len(definitions) :
        /\ HasLanguage(definitions[i]) /\ HasLanguage(definitions[j])
        /\ definitions[i].design = definitions[j].design
        /\ definitions[i].language # definitions[j].language

HasUnknown(definitions) ==
    \E i \in 1..Len(definitions) :
        definitions[i].kind \notin {"ViewDefinition", "UpdateHandlerDefinition"}

Designs(definitions) == {definitions[i].design : i \in 1..Len(definitions)}

\* The design names of the groups that hold a definition of an unknown kind,
\* and the groups sorted before all of them.
UnknownDesigns(definitions) ==
    {definitions[i].design :
        i \in {j \in 1..Len(definitions) :
                  definitions[j].kind \notin
                      {"ViewDefinition", "UpdateHandlerDefinition"}}}

GroupsBeforeUnknown(definitions) ==
    {g \in Designs(definitions) :
        \A u \in UnknownDesigns(definitions) : StrLess(g, u)}

\* The design names of the groups in which two definitions declare different
\* languages.
ConflictDesigns(definitions) ==
    {definitions[i].design :
        i \in {j \in 1..Len(definitions) :
                  /\ HasLanguage(definitions[j])
                  /\ \E k \in 1..Len(definitions) :
                        /\ HasLanguage(definitions[k])
                        /\ definitions[k].design = definitions[j].design
                        /\ definitions[k].language # definitions[j].language}}

\* Two definitions that go to the same design document (the document id that
\* sync_many fetches for their groups) declare different languages.
SameDocumentConflict(definitions) ==
    \E i, j \in 1..Len(definitions) :
        /\ HasLanguage(definitions[i]) /\ HasLanguage(definitions[j])
        /\ DocId(StripPrefix(definitions[i].design))
              = DocId(StripPrefix(definitions[j].design))
        /\ definitions[i].language # definitions[j].language

\* C1 as claimed: a call given two definitions for the same design document
\* with different languages fails with ValueError and never calls db.update,
\* so the store stays as it was when the call began.
C1_LanguageConflictValueError ==
    SameDocumentConflict(TheCall.definitions) =>
        /\ TheCall.pc # "done"
        /\ UpdateCalls = 0
        /\ TheCall.results = <<>>
        /\ store = TheCall.before
        /\ Finished => TheCall.error = "ValueError"

\* C1 amended: a call given two definitions of one group (equal design name
\* as the constructor keeps it) with different languages never completes and
\* never calls db.update, so the store stays as it was when the call began;
\* every group fetched was merged, and the groups after the failing one are
\* still unprocessed.  The call ends with ValueError, or with TypeError when
\* every conflicting group holds a definition of an unknown kind or is sorted
\* after a group that holds one.
C1_LanguageConflictAborts ==
    DeclaresConflict(TheCall.definitions) =>
        /\ TheCall.pc # "done"
        /\ UpdateCalls = 0
        /\ TheCall.results = <<>>
        /\ store = TheCall.before
        /\ Finished =>
              /\ \/ TheCall.error = "ValueError"
                 \/ /\ TheCall.error = "TypeError"
                    /\ \A c \in ConflictDesigns(TheCall.definitions) :
                          \E u \in UnknownDesigns(TheCall.definitions) :
                              u = c \/ StrLess(u, c)
              /\ Len(EventsOf("get")) = Len(TheCall.merges)
              /\ \A i \in 1..Len(TheCall.pending) :
                    \A k \in 1..Len(TheCall.merges) :
                        StrLess(TheCall.merges[k].key, TheCall.pending[i].design)

\* C1 witness: the conflict is raised after an earlier document was merged
\* and collected for writing.
C1_Witness ==
    /\ DeclaresConflict(TheCall.definitions)
    /\ TheCall.pc = "raised"
    /\ TheCall.error = "ValueError"
    /\ TheCall.docs # <<>>
    /\ Len(TheCall.merges) = 2
    /\ TheCall.before # EmptyDict

\* The document each group of the call is merged into.
TargetId(m) == DocId(m.design_doc.design)

DistinctTargets ==
    \A i, j \in 1..Len(TheCall.merges) :
        i # j => TargetId(TheCall.merges[i]) # TargetId(TheCall.merges[j])

Unchanged(m) == m.error = "" /\ m.doc = m.orig_doc

\* C2: a second call with the same arguments, after a first call that
\* completed, finds every document unchanged, passes an empty list to
\* db.update, invokes no callback and leaves the store as it found it.
C2_Idempotent ==
    (TheCall.round >= 2 /\ TheCall.pc = "done") =>
        /\ \A k \in 1..Len(TheCall.merges) : Unchanged(TheCall.merges[k])
        /\ TheCall.docs = <<>>
        /\ EventsOf("callback") = <<>>
        /\ store = TheCall.before

\* Idempotence where no two groups of the call target the same document.
IdempotentDistinctTargets ==
    (TheCall.round >= 2 /\ TheCall.pc = "done" /\ DistinctTargets) =>
        /\ TheCall.docs = <<>>
        /\ EventsOf("callback") = <<>>
        /\ store = TheCall.before

\* The field key each definition type is merged into, and the definitions of
\* that type supplied for the group of merge m.
FieldOf(t) == IF definition_types[t].name = "views" THEN "views" ELSE "updates"

SuppliedOf(m, t) == m.design_doc[definition_types[t].name]

SuppliedNames(m, t) == {SuppliedOf(m, t)[i].name : i \in 1..Len(SuppliedOf(m, t))}

OldField(m, t) == Get(m.orig_doc, FieldOf(t), EmptyDict)

NewField(m, t) == Get(m.doc, FieldOf(t), EmptyDict)

SuppliedValue(t, definition) ==
    IF FieldOf(t) = "views" THEN get_definition(definition) ELSE definition.func

\* The last definition of type t supplied under the given name.
LastSupplied(m, t, name) ==
    SuppliedOf(m, t)[CHOOSE i \in 1..Len(SuppliedOf(m, t)) :
        /\ SuppliedOf(m, t)[i].name = name
        /\ \A j \in (i + 1)..Len(SuppliedOf(m, t)) :
              SuppliedOf(m, t)[j].name # name]

Kinds == 1..Len(definition_types)

\* C3: in every merged document, for a kind that received definitions, a
\* stored name that was not supplied is deleted when remove_missing is true
\* and kept with its stored value when it is false; every supplied name is
\* present with the value supplied (last) for it.
C3_RemovalPolicy ==
    \A k \in 1..Len(TheCall.merges) : \A t \in Kinds :
        SuppliedOf(TheCall.merges[k], t) # <<>> =>
            /\ \A n \in DOMAIN OldField(TheCall.merges[k], t)
                        \ SuppliedNames(TheCall.merges[k], t) :
                  IF TheCall.remove_missing
                  THEN n \notin DOMAIN NewField(TheCall.merges[k], t)
                  ELSE /\ n \in DOMAIN NewField(TheCall.merges[k], t)
                       /\ NewField(TheCall.merges[k], t)[n]
                            = OldField(TheCall.merges[k], t)[n]
            /\ \A n \in SuppliedNames(TheCall.merges[k], t) :
                  /\ n \in DOMAIN NewField(TheCall.merges[k], t)
                  /\ NewField(TheCall.merges[k], t)[n]
                       = SuppliedValue(t, LastSupplied(TheCall.merges[k], t, n))
            /\ DOMAIN NewField(TheCall.merges[k], t) \subseteq
                  DOMAIN OldField(TheCall.merges[k], t)
                     \cup SuppliedNames(TheCall.merges[k], t)

\* C3 witness: with remove_missing, a stored view that was not supplied is
\* gone from a document whose views received a definition, and the document
\* was written.
C3_Witness ==
    /\ TheCall.pc = "done"
    /\ TheCall.remove_missing
    /\ TheCall.results # <<>>
    /\ \E k \in 1..Len(TheCall.merges) :
          /\ SuppliedOf(TheCall.merges[k], 1) # <<>>
          /\ \E n \in DOMAIN OldField(TheCall.merges[k], 1) :
                /\ n \notin SuppliedNames(TheCall.merges[k], 1)
                /\ n \notin DOMAIN store[TargetId(TheCall.merges[k])]["views"]

SameField(m, t) ==
    /\ Has(m.doc, FieldOf(t)) = Has(m.orig_doc, FieldOf(t))
    /\ NewField(m, t) = OldField(m, t)

\* C4 as claimed: a kind that receives no definition for a document is left
\* untouched, whatever remove_missing is.
C4_UntouchedKind ==
    \A k \in 1..Len(TheCall.merges) : \A t \in Kinds :
        SuppliedOf(TheCall.merges[k], t) = <<>> => SameField(TheCall.merges[k], t)

\* C4 amended: a kind that receives no definition for a document is left
\* untouched when remove_missing is false; when remove_missing is true every
\* artifact stored under its field is deleted, the field staying as an empty
\* mapping if it was present and absent if it was absent.
C4_UntouchedKindUnlessRemoving ==
    \A k \in 1..Len(TheCall.merges) : \A t \in Kinds :
        SuppliedOf(TheCall.merges[k], t) = <<>> =>
            IF TheCall.remove_missing
            THEN /\ Has(TheCall.merges[k].doc, FieldOf(t))
                      = Has(TheCall.merges[k].orig_doc, FieldOf(t))
                 /\ NewField(TheCall.merges[k], t) = EmptyDict
            ELSE SameField(TheCall.merges[k], t)

\* C4 witness: only views are supplied with remove_missing, and the stored
\* update handlers of the document are gone from the store after the call.
C4_Witness ==
    /\ TheCall.pc = "done"
    /\ TheCall.remove_missing
    /\ \E k \in 1..Len(TheCall.merges) :
          /\ SuppliedOf(TheCall.merges[k], 1) # <<>>
          /\ SuppliedOf(TheCall.merges[k], 2) = <<>>
          /\ OldField(TheCall.merges[k], 2) # EmptyDict
          /\ store[TargetId(TheCall.merges[k])]["updates"] = EmptyDict

\* C5 as claimed: a call given a definition of an unknown kind fails with
\* TypeError and never calls db.update, so no document is written.
C5_UnknownKindTypeError ==
    HasUnknown(TheCall.definitions) =>
        /\ TheCall.pc # "done"
        /\ UpdateCalls = 0
        /\ TheCall.results = <<>>
        /\ store = TheCall.before
        /\ Finished => TheCall.error = "TypeError"

\* C5 amended: a call given a definition of an unknown kind never completes and
\* never calls db.update, so no document is written; it ends with TypeError,
\* unless the language conflict of a group sorted before every unknown
\* definition has ended it with ValueError first.
C5_UnknownKindAborts ==
    HasUnknown(TheCall.definitions) =>
        /\ TheCall.pc # "done"
        /\ UpdateCalls = 0
        /\ TheCall.results = <<>>
        /\ store = TheCall.before
        /\ Finished =>
              \/ TheCall.error = "TypeError"
              \/ /\ TheCall.error = "ValueError"
                 /\ TheCall.merges[Len(TheCall.merges)].key
                       \in GroupsBeforeUnknown(TheCall.definitions)

\* C5 witness: TypeError is raised after the document of a group of valid
\* definitions was merged and collected; that document is not written.
C5_Witness ==
    /\ HasUnknown(TheCall.definitions)
    /\ TheCall.pc = "raised"
    /\ TheCall.error = "TypeError"
    /\ TheCall.docs # <<>>
    /\ store = TheCall.before

\* C6 as claimed: when the call fails for an unknown kind, no document has
\* been fetched, no callback invoked and no commit made.
C6_FailsBeforeAnyFetch ==
    TheCall.error = "TypeError" =>
        /\ EventsOf("get") = <<>>
        /\ EventsOf("callback") = <<>>
        /\ UpdateCalls = 0

\* The merges of the call that succeeded and changed the document.
ChangedMerges ==
    {k \in 1..Len(TheCall.merges) :
        /\ TheCall.merges[k].error = ""
        /\ TheCall.merges[k].doc # TheCall.merges[k].orig_doc}

\* C6 amended: a call given a definition of an unknown kind makes no commit
\* and neither fetches nor reports to the callback the first group that holds
\* such a definition or any group sorted after it.  The groups sorted before
\* it are handled in ascending order, each fetched once and reported to the
\* callback if it merged and changed.  The call fails with TypeError when all
\* of them have been fetched and merged, or with ValueError at the language
\* check of one of them, after its fetch and with no later group fetched.
C6_FailsBeforeOwnFetch ==
    HasUnknown(TheCall.definitions) =>
        /\ UpdateCalls = 0
        /\ TheCall.pc # "done"
        /\ Len(EventsOf("get")) = Len(TheCall.merges)
        /\ Len(EventsOf("callback"))
              = IF TheCall.callback THEN Cardinality(ChangedMerges) ELSE 0
        /\ \A k \in 1..Len(TheCall.merges) :
              /\ TheCall.merges[k].key \in GroupsBeforeUnknown(TheCall.definitions)
              /\ \A l \in 1..Len(TheCall.merges) :
                    k < l => StrLess(TheCall.merges[k].key, TheCall.merges[l].key)
        /\ \A i \in 1..Len(TheCall.events) :
              /\ TheCall.events[i].op = "get" =>
                    TheCall.events[i].id \in
                        {DocId(StripPrefix(g)) :
                            g \in GroupsBeforeUnknown(TheCall.definitions)}
              /\ TheCall.events[i].op = "callback" =>
                    \E k \in ChangedMerges :
                        TheCall.events[i].doc = TheCall.merges[k].doc
        /\ TheCall.pc = "raised" =>
              \/ /\ TheCall.error = "TypeError"
                 /\ {TheCall.merges[k].key : k \in 1..Len(TheCall.merges)}
                       = GroupsBeforeUnknown(TheCall.definitions)
                 /\ \A k \in 1..Len(TheCall.merges) :
                       TheCall.merges[k].error = ""
              \/ /\ TheCall.error = "ValueError"
                 /\ TheCall.merges # <<>>
                 /\ \A k \in 1..Len(TheCall.merges) :
                       (TheCall.merges[k].error = "ValueError")
                           <=> (k = Len(TheCall.merges))
                 /\ {TheCall.merges[k].key : k \in 1..Len(TheCall.merges)}
                       = {g \in Designs(TheCall.definitions) :
                             ~StrLess(TheCall.merges[Len(TheCall.merges)].key, g)}

\* C6 witness: TypeError is raised after an earlier group was fetched and
\* its changed document passed to the callback.
C6_Witness ==
    /\ HasUnknown(TheCall.definitions)
    /\ TheCall.pc = "raised"
    /\ TheCall.error = "TypeError"
    /\ EventsOf("get") # <<>>
    /\ EventsOf("callback") # <<>>

\* The other way a call with an unknown kind ends: the stored language of an
\* earlier group conflicts with the supplied one, and a group sorted between
\* it and the unknown kind is never fetched.
EarlierGroupFailedBeforeUnknown ==
    /\ HasUnknown(TheCall.definitions)
    /\ TheCall.pc = "raised"
    /\ TheCall.error = "ValueError"
    /\ ~DeclaresConflict(TheCall.definitions)
    /\ \E g \in GroupsBeforeUnknown(TheCall.definitions) :
          \A k \in 1..Len(TheCall.merges) : TheCall.merges[k].key # g

SuccessCount == Cardinality({i \in 1..Len(TheCall.results) : TheCall.results[i].success})

\* C7: the definitions of one design name are merged into one document, with
\* one fetch and at most one entry in the commit batch per document, and
\* different design names go to different documents; against an empty store
\* as many documents are committed, and outcomes returned, as there are
\* distinct design names.
C7_Grouping ==
    /\ \A i, j \in 1..Len(TheCall.merges) :
          TheCall.merges[i].key # TheCall.merges[j].key =>
              TargetId(TheCall.merges[i]) # TargetId(TheCall.merges[j])
    /\ \A i, j \in 1..Len(EventsOf("get")) :
          i # j => EventsOf("get")[i].id # EventsOf("get")[j].id
    /\ \A i, j \in 1..Len(TheCall.docs) :
          i # j => TheCall.docs[i]["_id"] # TheCall.docs[j]["_id"]
    /\ (TheCall.pc = "done" /\ TheCall.before = EmptyDict) =>
          /\ Len(TheCall.results) = Cardinality(Designs(TheCall.definitions))
          /\ SuccessCount = Cardinality(Designs(TheCall.definitions))

\* The documents of the merges that changed them, in the order of the merges.
ChangedOf(merges) == SelectSeq(merges, LAMBDA m : m.error = "" /\ m.doc # m.orig_doc)

ChangedDocs == [i \in 1..Len(ChangedOf(TheCall.merges)) |->
                   ChangedOf(TheCall.merges)[i].doc]

DocsOf(events) == [i \in 1..Len(events) |-> events[i].doc]

\* C8: a call that completes has called db.update exactly once, as its last
\* step after all groups, with exactly the changed documents in group order;
\* a call that has not completed, or raised, has not called db.update.
C8_SingleCommit ==
    /\ TheCall.pc # "done" => UpdateCalls = 0
    /\ TheCall.pc = "done" =>
          /\ UpdateCalls = 1
          /\ TheCall.events[Len(TheCall.events)].op = "update"
          /\ TheCall.events[Len(TheCall.events)].docs = ChangedDocs
          /\ Len(TheCall.results) = Len(ChangedDocs)
          /\ TheCall.pending = <<>>
          /\ Len(TheCall.merges) = Cardinality(Designs(TheCall.definitions))
          /\ \A i, j \in 1..Len(TheCall.merges) :
                i < j => StrLess(TheCall.merges[i].key, TheCall.merges[j].key)

\* C8 witness: a completed call over three groups wrote some of the
\* documents and left an unchanged one out.
C8_Witness ==
    /\ TheCall.pc = "done"
    /\ Len(TheCall.merges) = 3
    /\ \E k \in 1..Len(TheCall.merges) : Unchanged(TheCall.merges[k])
    /\ Len(TheCall.events[Len(TheCall.events)].docs) = 2
    /\ \A i \in 1..Len(TheCall.results) : TheCall.results[i].success

\* C9: with a callback, the callback has been invoked exactly once for each
\* changed document, in order, and for no other; the documents it received
\* are the documents passed to db.update, and every invocation precedes the
\* db.update call.  Without a callback nothing is invoked.
C9_CallbackBeforeCommit ==
    /\ DocsOf(EventsOf("callback")) = IF TheCall.callback THEN ChangedDocs ELSE <<>>
    /\ (TheCall.pc = "done" /\ TheCall.callback) =>
          DocsOf(EventsOf("callback")) = EventsOf("update")[1].docs
    /\ \A i, j \in 1..Len(TheCall.events) :
          (TheCall.events[i].op = "callback" /\ TheCall.events[j].op = "update")
              => i < j

\* C9 witness: a completed call with a callback reported two changed
\* documents and skipped an unchanged one.
C9_Witness ==
    /\ TheCall.pc = "done"
    /\ TheCall.callback
    /\ Len(EventsOf("callback")) = 2
    /\ \E k \in 1..Len(TheCall.merges) : Unchanged(TheCall.merges[k])

Without(d, k) == [x \in (DOMAIN d) \ {k} |-> d[x]]

\* C10: the merge of the view definitions changes no key of the document
\* other than 'views', so 'updates' is as fetched after it; the merge of the
\* update handlers changes no key other than 'updates', so 'views' is as
\* the view merge left it.
C10_KindIsolation ==
    \A k \in 1..Len(TheCall.merges) :
        /\ Without(TheCall.merges[k].steps[1], "views")
              = Without(TheCall.merges[k].orig_doc, "views")
        /\ Without(TheCall.merges[k].steps[2], "updates")
              = Without(TheCall.merges[k].steps[1], "updates")

\* C10 witness: views and update handlers are merged into a stored document
\* that has both fields, and each merge changed its own field.
C10_Witness ==
    \E k \in 1..Len(TheCall.merges) :
        /\ SuppliedOf(TheCall.merges[k], 1) # <<>>
        /\ SuppliedOf(TheCall.merges[k], 2) # <<>>
        /\ OldField(TheCall.merges[k], 1) # EmptyDict
        /\ OldField(TheCall.merges[k], 2) # EmptyDict
        /\ TheCall.merges[k].steps[1] # TheCall.merges[k].orig_doc
        /\ TheCall.merges[k].steps[2] # TheCall.merges[k].steps[1]


\* The field key of the kind of a definition, and the value stored for it.
FieldOfKind(definition) ==
    IF definition.kind = "ViewDefinition" THEN "views" ELSE "updates"

ValueOfKind(definition) ==
    IF definition.kind = "ViewDefinition" THEN get_definition(definition)
    ELSE definition.func

\* The call was given one definition of a recognised kind, for design name d,
\* and the store held no document '_design/d' when the call began.
SingleOnFreshName ==
    /\ Len(TheCall.definitions) = 1
    /\ ~HasUnknown(TheCall.definitions)
    /\ DocId(TheCall.definitions[1].design) \notin DOMAIN TheCall.before

\* The document '_design/d' is stored with the definition under its kind's
\* field, the definition's language, and the revision rev.
StoredAs(definition, rev) ==
    /\ DocId(definition.design) \in DOMAIN store
    /\ store[DocId(definition.design)]["_rev"] = rev
    /\ store[DocId(definition.design)]["language"] = definition.language
    /\ FieldOfKind(definition) \in DOMAIN store[DocId(definition.design)]
    /\ definition.name \in
          DOMAIN store[DocId(definition.design)][FieldOfKind(definition)]
    /\ store[DocId(definition.design)][FieldOfKind(definition)][definition.name]
          = ValueOfKind(definition)

\* C11: syncing a single definition for design name d against a store without
\* '_design/d' completes, commits exactly one document, with _id '_design/d',
\* and returns exactly one outcome (True, '_design/d', rev), rev being the
\* revision under which the store now holds the document with the definition.
C11_SingleDefinition ==
    (SingleOnFreshName /\ Finished) =>
        /\ TheCall.pc = "done"
        /\ Len(TheCall.docs) = 1
        /\ TheCall.docs[1]["_id"] = DocId(TheCall.definitions[1].design)
        /\ Len(TheCall.results) = 1
        /\ TheCall.results[1].success
        /\ TheCall.results[1].id = DocId(TheCall.definitions[1].design)
        /\ StoredAs(TheCall.definitions[1], TheCall.results[1].rev)

\* C11 where the design name of the definition no longer starts with
\* '_design/' after the definition was constructed.
SingleDefinitionPlainName ==
    (/\ Len(TheCall.definitions) = 1
     /\ ~StartsWithPrefix(TheCall.definitions[1].design)) => C11_SingleDefinition

\* The kinds that received at least one definition in the merge m.
SuppliedKinds(m) == {t \in Kinds : SuppliedOf(m, t) # <<>>}

\* The merge m creates its document: the store held none under its id.
Creates(m) == DOMAIN m.orig_doc = {"_id"}

\* C12: with remove_missing false, a kind that receives no definition for a
\* document leaves its field exactly as fetched and does not create it when it
\* was absent; a document created by a merge that got definitions of one kind
\* only has exactly the keys '_id', 'language' and that kind's field.
C12_AbsentKindFieldNotCreated ==
    ~TheCall.remove_missing =>
        \A k \in 1..Len(TheCall.merges) :
            /\ \A t \in Kinds \ SuppliedKinds(TheCall.merges[k]) :
                  /\ Has(TheCall.merges[k].doc, FieldOf(t))
                        = Has(TheCall.merges[k].orig_doc, FieldOf(t))
                  /\ Has(TheCall.merges[k].orig_doc, FieldOf(t)) =>
                        TheCall.merges[k].doc[FieldOf(t)]
                            = TheCall.merges[k].orig_doc[FieldOf(t)]
            /\ (/\ TheCall.merges[k].error = ""
                /\ Creates(TheCall.merges[k])
                /\ Cardinality(SuppliedKinds(TheCall.merges[k])) = 1) =>
                  DOMAIN TheCall.merges[k].doc
                      = {"_id", "language"}
                          \cup {FieldOf(t) : t \in SuppliedKinds(TheCall.merges[k])}

\* C12 witness: without remove_missing, only update handlers were supplied
\* for a document the store did not hold, and the document now stored has the
\* 'updates' field and no 'views' field.
C12_Witness ==
    /\ TheCall.pc = "done"
    /\ ~TheCall.remove_missing
    /\ Len(TheCall.merges) = 1
    /\ Creates(TheCall.merges[1])
    /\ SuppliedKinds(TheCall.merges[1]) = {2}
    /\ TheCall.merges[1].key = <<"b">>
    /\ IdB \in DOMAIN store
    /\ DOMAIN store[IdB] = {"_id", "_rev", "language", "updates"}

\* The store st holds a revision of the document other than the one fetched.
Stale(st, doc) ==
    /\ doc["_id"] \in DOMAIN st
    /\ Get(doc, "_rev", 0) # st[doc["_id"]]["_rev"]

\* Every entry of the batch for the document of entry i was fetched before
\* the stored revision was written.
FetchedBeforeWrite(st, docs, i) ==
    \A j \in 1..Len(docs) : docs[j]["_id"] = docs[i]["_id"] => Stale(st, docs[j])

\* C13: when the loop of a call ends, the call issues its single db.update and
\* completes without raising and without fetching again; every document of
\* the batch whose stored revision is no longer the fetched one gets a failed
\* (conflict) outcome at its position, and the stored version stays as it was
\* when the call fetched the document only before that version was written.
C13_ConflictReportedNotRaised ==
    [][(TheCall.pc = "loop" /\ TheCall.pending = <<>> /\ TheCall' # TheCall) =>
          /\ TheCall'.pc = "done"
          /\ TheCall'.error = ""
          /\ TheCall'.events
                = Append(TheCall.events, [op |-> "update", docs |-> TheCall.docs])
          /\ Len(SelectSeq(TheCall'.events, LAMBDA e : e.op = "update")) = 1
          /\ TheCall'.merges = TheCall.merges
          /\ Len(TheCall'.results) = Len(TheCall.docs)
          /\ \A i \in 1..Len(TheCall.docs) :
                Stale(store, TheCall.docs[i]) =>
                    /\ ~TheCall'.results[i].success
                    /\ TheCall'.results[i].id = TheCall.docs[i]["_id"]
                    /\ TheCall'.results[i].error = "conflict"
                    /\ FetchedBeforeWrite(store, TheCall.docs, i) =>
                          store'[TheCall.docs[i]["_id"]]
                              = store[TheCall.docs[i]["_id"]]]_vars

\* C13 witness: a call over two distinct documents is done; one was updated
\* by the other writer between its fetch and the commit, its outcome is a
\* failure and the store holds the other writer's version; the other
\* document of the batch was written.
C13_Witness ==
    /\ TheCall.pc = "done"
    /\ Len(TheCall.merges) = 2
    /\ TheCall.merges[1].orig_doc["_id"] = IdA
    /\ TheCall.merges[2].orig_doc["_id"] = IdB
    /\ Len(TheCall.results) = 2
    /\ ~TheCall.results[1].success
    /\ TheCall.results[2].success
    /\ Has(store[IdA], "writer")
    /\ ~Has(TheCall.merges[1].orig_doc, "writer")
    /\ store[IdA]["_rev"] = Get(TheCall.merges[1].orig_doc, "_rev", 0) + 1
    /\ store[IdB]["_rev"] = TheCall.results[2].rev
    /\ Len(EventsOf("get")) = 2

\* The call of caller c run alone, without interruption, against the store st.
Alone(st, c) ==
    sync_many(st, sync_definitions(call[c].definitions, call[c].remove_missing,
                                   call[c].callback))

\* What a caller observes of its call.
Observed == {"pc", "error", "results", "docs", "merges", "events"}

SameObserved(cs, alone) == \A f \in Observed : cs[f] = alone[f]

BothFinished == \A c \in Callers : call[c].pc \in {"done", "raised"}

\* C14: two calls of sync_definitions on disjoint design documents, however
\* their steps interleave, end as if run one after the other, in either order:
\* each call has the outcomes, error, fetches and batch of its run alone, and
\* the store is the one both sequential orders produce.
C14_DisjointCallsIndependent ==
    BothFinished =>
        /\ \A c \in Callers :
              /\ SameObserved(call[c], Alone(call[c].before, c).call)
              /\ SameObserved(call[c],
                     Alone(Alone(call[c].before, 3 - c).store, c).call)
        /\ store = Alone(Alone(call[1].before, 1).store, 2).store
        /\ store = Alone(Alone(call[1].before, 2).store, 1).store

\* C14 witness: both calls are done, each wrote its own document, and the
\* store holds both at the revisions reported.
C14_Witness ==
    /\ \A c \in Callers :
          /\ call[c].pc = "done"
          /\ Len(call[c].results) = 1
          /\ call[c].results[1].success
          /\ call[c].results[1].id = DocOfCaller(c)
          /\ store[DocOfCaller(c)]["_rev"] = call[c].results[1].rev
    /\ IdA \in DOMAIN call[1].before
    /\ store[IdA]["_rev"] = call[1].before[IdA]["_rev"] + 1
    /\ IdB \notin DOMAIN call[1].before

\* The call was given validator definitions only, all for one design name.
OnlyValidators ==
    /\ TheCall.definitions # <<>>
    /\ \A i \in 1..Len(TheCall.definitions) :
          /\ TheCall.definitions[i].kind = "ValidateFunctionDefinition"
          /\ TheCall.definitions[i].design = TheCall.definitions[1].design

\* C15: a call given more than one validator definition for one design
\* document fails with ValueError and writes nothing; a call given a single
\* validator definition, for a document the store does not hold, completes
\* with the one outcome (True, '_design/<name>', rev), rev being the stored
\* revision.
C15_ValidatorUniqueness ==
    (OnlyValidators /\ Finished) =>
        IF Len(TheCall.definitions) > 1
        THEN /\ TheCall.pc = "raised"
             /\ TheCall.error = "ValueError"
             /\ UpdateCalls = 0
             /\ store = TheCall.before
        ELSE DocId(TheCall.definitions[1].design) \notin DOMAIN TheCall.before =>
             /\ TheCall.pc = "done"
             /\ Len(TheCall.results) = 1
             /\ TheCall.results[1].success
             /\ TheCall.results[1].id = DocId(TheCall.definitions[1].design)
             /\ DocId(TheCall.definitions[1].design) \in DOMAIN store
             /\ store[DocId(TheCall.definitions[1].design)]["_rev"]
                   = TheCall.results[1].rev

\* What the code does with validator definitions: the call fails with
\* TypeError before the document is fetched, and writes nothing.
ValidatorsAreUnknownKind ==
    (OnlyValidators /\ Finished) =>
        /\ TheCall.pc = "raised"
        /\ TheCall.error = "TypeError"
        /\ TheCall.events = <<>>
        /\ store = TheCall.before

\* The definition has a reduce function, and it is not the empty string.
HasReduce(view) == view.reduce_fun # None /\ view.reduce_fun.val # <<>>

\* The definition has options, and they are not the empty mapping.
HasOptions(view) == view.options # None /\ view.options.val # EmptyDict

\* The stored value is the one of the view definition: 'map' always, 'reduce'
\* and 'options' exactly when the definition has non-empty ones.
StoredView(value, view) ==
    /\ DOMAIN value = {"map"}
          \cup (IF HasReduce(view) THEN {"reduce"} ELSE {})
          \cup (IF HasOptions(view) THEN {"options"} ELSE {})
    /\ value["map"] = view.map_fun
    /\ HasReduce(view) => value["reduce"] = view.reduce_fun.val
    /\ HasOptions(view) => value["options"] = view.options.val

\* C16: in every merged document the entry of a supplied view name is the
\* value of the definition supplied (last) for it: 'map' is its map source,
\* 'reduce' is present exactly when it has a non-empty reduce function,
\* 'options' exactly when it has non-empty options, both equal to the
\* definition's; and every document written is stored as it was merged.
C16_StoredViewValue ==
    /\ \A k \in 1..Len(TheCall.merges) :
          \A n \in SuppliedNames(TheCall.merges[k], 1) :
              /\ n \in DOMAIN NewField(TheCall.merges[k], 1)
              /\ StoredView(NewField(TheCall.merges[k], 1)[n],
                            LastSupplied(TheCall.merges[k], 1, n))
    /\ TheCall.pc = "done" =>
          \A i \in 1..Len(TheCall.results) :
              TheCall.results[i].success =>
                  /\ Has(TheCall.docs[i], "views") =>
                        store[TheCall.results[i].id]["views"]
                            = TheCall.docs[i]["views"]
                  /\ Has(store[TheCall.results[i].id], "views")
                        = Has(TheCall.docs[i], "views")

\* C16 witness: a view with a reduce function and options was synced from an
\* indented source; the store holds its dedented map, its reduce and options.
C16_Witness ==
    /\ TheCall.pc = "done"
    /\ Len(TheCall.results) = 1
    /\ TheCall.results[1].success
    /\ IdA \in DOMAIN store
    /\ Has(store[IdA], "views")
    /\ "n1" \in DOMAIN store[IdA]["views"]
    /\ store[IdA]["views"]["n1"]
          = ("map" :> Src("m2")) @@ ("reduce" :> Src("r1"))
                @@ ("options" :> ("collation" :> "raw"))

\* A view whose reduce function is the empty string and whose options are the
\* empty mapping was synced: the stored entry has 'map' only.
EmptyReduceAndOptionsDropped ==
    /\ TheCall.pc = "done"
    /\ Len(TheCall.merges) = 1
    /\ \E n \in SuppliedNames(TheCall.merges[1], 1) :
          /\ LastSupplied(TheCall.merges[1], 1, n).reduce_fun = Some(<<>>)
          /\ LastSupplied(TheCall.merges[1], 1, n).options = Some(EmptyDict)
          /\ DOMAIN TheCall.merges[1].doc["views"][n] = {"map"}
    /\ Len(TheCall.results) = 1
    /\ TheCall.results[1].success

\* The languages declared by the definitions supplied for the merge m.
SuppliedLanguages(m) ==
    UNION {{SuppliedOf(m, t)[i].language : i \in 1..Len(SuppliedOf(m, t))} :
              t \in Kinds}

\* The merge m keeps a stored artifact that was not supplied: remove_missing
\* is false and a kind's field holds a name without a definition in the call.
KeepsStored(m) ==
    /\ ~TheCall.remove_missing
    /\ \E t \in Kinds : DOMAIN OldField(m, t) \ SuppliedNames(m, t) # {}

\* The languages the check of the merge m counts: the supplied ones and,
\* when stored artifacts are kept, the language of the stored document.
CountedLanguages(m) ==
    SuppliedLanguages(m)
        \cup (IF KeepsStored(m) /\ Has(m.orig_doc, "language")
              THEN {m.orig_doc["language"]} ELSE {})

\* C17 as claimed: a merge whose supplied definitions all declare the same
\* language never fails with the language conflict, whatever the stored
\* document holds and whatever remove_missing is.
C17_SuppliedLanguagesDecide ==
    \A k \in 1..Len(TheCall.merges) :
        Cardinality(SuppliedLanguages(TheCall.merges[k])) = 1 =>
            TheCall.merges[k].error # "ValueError"

\* C17 amended: a merge fails with the language conflict exactly when the
\* supplied languages, together with the stored document's language if
\* remove_missing is false and the document keeps a stored artifact that was
\* not supplied, are more than one language; so uniform supplied definitions
\* never conflict when remove_missing is true.
C17_StoredLanguageCounts ==
    \A k \in 1..Len(TheCall.merges) :
        /\ (TheCall.merges[k].error = "ValueError")
              = (Cardinality(CountedLanguages(TheCall.merges[k])) > 1)
        /\ TheCall.merges[k].languages = CountedLanguages(TheCall.merges[k])
        /\ (/\ TheCall.remove_missing
            /\ Cardinality(SuppliedLanguages(TheCall.merges[k])) = 1) =>
              TheCall.merges[k].error = ""

\* C17 witness: all supplied definitions declare one language, remove_missing
\* is false, the stored document keeps an artifact and has another language:
\* the call failed with the language conflict and wrote nothing.
C17_Witness ==
    /\ TheCall.pc = "raised"
    /\ TheCall.error = "ValueError"
    /\ ~TheCall.remove_missing
    /\ Len(TheCall.merges) = 1
    /\ Cardinality(SuppliedLanguages(TheCall.merges[1])) = 1
    /\ Has(TheCall.merges[1].orig_doc, "language")
    /\ TheCall.merges[1].orig_doc["language"]
          \notin SuppliedLanguages(TheCall.merges[1])
    /\ store = TheCall.before

\* The document has the language that every definition supplied for the
\* merge m declares.
HasSuppliedLanguage(doc, m) ==
    /\ Has(doc, "language")
    /\ \A t \in Kinds : \A i \in 1..Len(SuppliedOf(m, t)) :
          SuppliedOf(m, t)[i].language = doc["language"]

\* C18: after a merge that succeeded the document's 'language' is the single
\* element of the language set, which is the language of every definition
\* supplied for the document; every document passed to db.update comes from
\* such a merge and so carries the language of all its definitions.
C18_LanguageAssigned ==
    /\ \A k \in 1..Len(TheCall.merges) :
          TheCall.merges[k].error = "" =>
              /\ HasSuppliedLanguage(TheCall.merges[k].doc, TheCall.merges[k])
              /\ TheCall.merges[k].languages
                    = {TheCall.merges[k].doc["language"]}
    /\ \A e \in 1..Len(EventsOf("update")) :
          \A i \in 1..Len(EventsOf("update")[e].docs) :
              \E k \in 1..Len(TheCall.merges) :
                  /\ TheCall.merges[k].error = ""
                  /\ TheCall.merges[k].doc = EventsOf("update")[e].docs[i]
                  /\ HasSuppliedLanguage(EventsOf("update")[e].docs[i],
                                         TheCall.merges[k])

\* C18 witness: a document stored with language javascript got, with
\* remove_missing, a python definition; it was written with language python.
C18_Witness ==
    /\ TheCall.pc = "done"
    /\ TheCall.remove_missing
    /\ Len(TheCall.merges) = 1
    /\ Has(TheCall.merges[1].orig_doc, "language")
    /\ TheCall.merges[1].orig_doc["language"] = "javascript"
    /\ Len(TheCall.results) = 1
    /\ TheCall.results[1].success
    /\ store[TheCall.results[1].id]["language"] = "python"
    /\ SuppliedLanguages(TheCall.merges[1]) = {"python"}

\* The positions in the caller's list of the definitions of the kind t that
\* belong to the group of the merge m and carry the given name.
PositionsOf(m, t, name) ==
    {i \in 1..Len(TheCall.definitions) :
        /\ TheCall.definitions[i].kind = definition_types[t].cls
        /\ TheCall.definitions[i].design = m.key
        /\ TheCall.definitions[i].name = name}

Max(S) == CHOOSE x \in S : \A y \in S : y <= x

\* C19: when the caller's list holds several definitions of one kind for one
\* design name and one artifact name, the merged entry of that name is the
\* value of the one that comes last in the caller's list.
C19_LastInInputOrderWins ==
    \A k \in 1..Len(TheCall.merges) : \A t \in Kinds :
        \A n \in SuppliedNames(TheCall.merges[k], t) :
            /\ PositionsOf(TheCall.merges[k], t, n) # {}
            /\ n \in DOMAIN NewField(TheCall.merges[k], t)
            /\ NewField(TheCall.merges[k], t)[n]
                  = SuppliedValue(t,
                        TheCall.definitions[
                            Max(PositionsOf(TheCall.merges[k], t, n))])

\* C19 witness: the caller's list holds two different definitions of the view
\* n1 of design a, with another definition between them; the document was
\* written with the value of the later one.
C19_Witness ==
    /\ TheCall.pc = "done"
    /\ Len(TheCall.definitions) = 3
    /\ TheCall.definitions[1].kind = "ViewDefinition"
    /\ TheCall.definitions[3].kind = "ViewDefinition"
    /\ TheCall.definitions[1].design = <<"a">>
    /\ TheCall.definitions[3].design = <<"a">>
    /\ TheCall.definitions[2].design = <<"b">>
    /\ TheCall.definitions[1].name = "n1"
    /\ TheCall.definitions[3].name = "n1"
    /\ get_definition(TheCall.definitions[1])
          # get_definition(TheCall.definitions[3])
    /\ IdA \in DOMAIN store
    /\ store[IdA]["views"]["n1"] = get_definition(TheCall.definitions[3])
    /\ TheCall.results[1].success

\* The keys a merge may change.
MergeKeys == {"views", "updates", "language"}

\* The document without the keys a merge may change.
Rest(doc) == [x \in (DOMAIN doc) \ MergeKeys |-> doc[x]]

\* C20: a merge changes no key of the fetched document other than 'views',
\* 'updates' and 'language': '_id', '_rev' and every other top-level field
\* are the same, and no other key is added, in the merged document and so in
\* every document handed to db.update.
C20_OnlyMergeKeysChange ==
    /\ \A k \in 1..Len(TheCall.merges) :
          /\ Rest(TheCall.merges[k].doc) = Rest(TheCall.merges[k].orig_doc)
          /\ \A j \in 1..Len(TheCall.merges[k].steps) :
                Rest(TheCall.merges[k].steps[j])
                    = Rest(TheCall.merges[k].orig_doc)
    /\ \A i \in 1..Len(TheCall.docs) :
          \E k \in 1..Len(TheCall.merges) :
              /\ TheCall.docs[i] = TheCall.merges[k].doc
              /\ Rest(TheCall.docs[i]) = Rest(TheCall.merges[k].orig_doc)

\* C20 witness: a stored document with a revision and a field of its own
\* ('validate_doc_update') was changed by the merge and written: it was handed
\* to db.update with that field and the fetched revision.
C20_Witness ==
    /\ TheCall.pc = "done"
    /\ Len(TheCall.docs) = 1
    /\ Len(TheCall.merges) = 1
    /\ Has(TheCall.merges[1].orig_doc, "validate_doc_update")
    /\ TheCall.docs[1] # TheCall.merges[1].orig_doc
    /\ TheCall.docs[1]["validate_doc_update"]
          = TheCall.merges[1].orig_doc["validate_doc_update"]
    /\ TheCall.docs[1]["_rev"] = TheCall.merges[1].orig_doc["_rev"]
    /\ TheCall.results[1].success
    /\ Has(store[TheCall.results[1].id], "validate_doc_update")

\* The design name of the group at which a call that raised failed: the
\* group merged last for a language conflict, the least group that holds a
\* definition of an unknown kind otherwise.
FailedGroup ==
    IF TheCall.error = "ValueError"
    THEN TheCall.merges[Len(TheCall.merges)].key
    ELSE CHOOSE u \in UnknownDesigns(TheCall.definitions) :
             \A v \in UnknownDesigns(TheCall.definitions) :
                 v = u \/ StrLess(u, v)

\* What the database and the callback see of one group: the fetch, then the
\* callback if the merge succeeded, the document changed and a callback was
\* given.
EventsOfMerge(m) ==
    IF m.error = "" /\ m.doc # m.orig_doc /\ TheCall.callback
    THEN <<[op |-> "get", id |-> m.orig_doc["_id"]],
           [op |-> "callback", doc |-> m.doc]>>
    ELSE <<[op |-> "get", id |-> m.orig_doc["_id"]]>>

RECURSIVE EventsOfMerges(_)
EventsOfMerges(n) ==
    IF n = 0 THEN <<>>
    ELSE EventsOfMerges(n - 1) \o EventsOfMerge(TheCall.merges[n])

\* C21: the groups are processed one at a time in ascending order of design
\* name, each fetched and then reported to the callback if changed.  When the
\* call raised at a group (language conflict or unknown kind), exactly the
\* groups sorted before it were merged successfully, each fetched and each
\* changed one reported, no group after it was touched, db.update was not
\* called and the store is as before the call; db.update follows callback
\* invocations only in a call that completed.
C21_EarlierGroupsSeenNothingWritten ==
    /\ \A i, j \in 1..Len(TheCall.merges) :
          i < j => StrLess(TheCall.merges[i].key, TheCall.merges[j].key)
    /\ SelectSeq(TheCall.events, LAMBDA e : e.op # "update")
          = EventsOfMerges(Len(TheCall.merges))
    /\ UpdateCalls > 0 => TheCall.pc = "done"
    /\ TheCall.pc = "raised" =>
          /\ TheCall.error \in {"ValueError", "TypeError"}
          /\ {TheCall.merges[k].key :
                 k \in {x \in 1..Len(TheCall.merges) :
                           TheCall.merges[x].error = ""}}
                = {g \in Designs(TheCall.definitions) : StrLess(g, FailedGroup)}
          /\ \A k \in 1..Len(TheCall.merges) :
                TheCall.merges[k].error # "" =>
                    /\ k = Len(TheCall.merges)
                    /\ TheCall.error = "ValueError"
          /\ TheCall.error = "TypeError" =>
                \A k \in 1..Len(TheCall.merges) :
                    TheCall.merges[k].key # FailedGroup
          /\ UpdateCalls = 0
          /\ TheCall.results = <<>>
          /\ store = TheCall.before

\* C21 witness: the second group failed with a language conflict after the
\* first group's document was fetched, changed and passed to the callback;
\* db.update was not called and that document is not in the store.
C21_Witness ==
    /\ TheCall.pc = "raised"
    /\ TheCall.error = "ValueError"
    /\ Len(TheCall.merges) = 2
    /\ TheCall.merges[1].error = ""
    /\ TheCall.merges[2].error = "ValueError"
    /\ Len(EventsOf("get")) = 2
    /\ Len(EventsOf("callback")) = 1
    /\ EventsOf("callback")[1].doc = TheCall.merges[1].doc
    /\ TheCall.docs = <<TheCall.merges[1].doc>>
    /\ UpdateCalls = 0
    /\ TheCall.merges[1].orig_doc["_id"] \notin DOMAIN store

\* The same after an unknown kind in the second group: the first group's
\* changed document was passed to the callback and is not written.
EarlierGroupNotifiedBeforeTypeError ==
    /\ TheCall.pc = "raised"
    /\ TheCall.error = "TypeError"
    /\ Len(TheCall.merges) = 1
    /\ Len(EventsOf("callback")) = 1
    /\ TheCall.merges[1].orig_doc["_id"] \notin DOMAIN store

====
